---- MODULE Spec2Model ----
(***************************************************************************)
(* dwmac-sunxi.c - Allwinner sunxi DWMAC glue layer.                       *)
(*                                                                         *)
(* The driver's private data (struct sunxi_priv_data), the TX clock, the   *)
(* PHY regulator and the EMAC clock register are the state; the platform   *)
(* driver callbacks probe / fix_mac_speed / remove are the actions.  The   *)
(* functions of the file are operators on a record "w" holding that state, *)
(* applied in the order the C code applies them.                           *)
(***************************************************************************)
EXTENDS Integers, Sequences, FiniteSets, TLC

(* ---------------------------------------------------------------------- *)
(* Program constants                                                       *)
(* ---------------------------------------------------------------------- *)
Shl(x, n) == x * (2 ^ n)

SUN7I_GMAC_GMII_RGMII_RATE == 125000000
SUN7I_GMAC_MII_RATE == 25000000
\* (3 << 1) | (1 << 12): the two operands share no bit, so | is +
SUN7I_A20_RGMII_CLK == Shl(3, 1) + Shl(1, 12)
SUN7I_A20_MII_CLK == Shl(1, 12)

EIO == 5
ENOMEM == 12
ENODEV == 19
EINVAL == 22
ESHUTDOWN == 108
EPROBE_DEFER == 517

(* ---------------------------------------------------------------------- *)
(* Input domains                                                           *)
(* ---------------------------------------------------------------------- *)
\* phy_interface_t values the device tree can select
Modes == {"NA", "MII", "GMII", "RMII", "RGMII", "RGMII_ID", "RGMII_RXID", "RGMII_TXID"}

\* link speeds reported by the PHY layer, in Mb/s
Speeds == {10, 100, 1000}

\* collaborator calls that may fail during one handler invocation
FaultOps == {"regulator_enable", "clk_set_rate", "clk_prepare", "clk_enable"}
Faults == SUBSET FaultOps

\* of_get_phy_mode(): 0 with a mode, or an error leaving the mode NA
PhyModeResults ==
    {[ret |-> 0, mode |-> m] : m \in Modes \ {"NA"}}
        \cup {[ret |-> -ENODEV, mode |-> "NA"], [ret |-> -EINVAL, mode |-> "NA"]}

\* the device may be probed again after a failed probe or an unbind
MaxProbes == 2

\* outcomes of the collaborator calls made by one probe; a call that is not
\* reached because an earlier one failed has its outcome left at the default
NoFailure ==
    [early |-> "ok", clk_get |-> TRUE, syscon_pdev |-> TRUE, dev_regmap |-> TRUE,
     lookup |-> 0, field_alloc |-> TRUE, regulator_get |-> "absent", f |-> {},
     dvr_probe |-> TRUE]

\* how the syscon regmap lookup can go: through the platform device, or
\* through syscon_regmap_lookup_by_phandle() when that fails
SysconInputs ==
    {[NoFailure EXCEPT !.syscon_pdev = p, !.dev_regmap = r, !.lookup = l] :
        p \in BOOLEAN, r \in BOOLEAN, l \in {0, -EINVAL, -EPROBE_DEFER}}

SysconFound(in) == (in.syscon_pdev /\ in.dev_regmap) \/ in.lookup = 0

CanonSyscon ==
    {in \in SysconInputs :
        /\ (in.syscon_pdev /\ in.dev_regmap) => in.lookup = 0
        /\ ~in.syscon_pdev => in.dev_regmap}

ProbeInputs ==
    {[NoFailure EXCEPT !.early = e] : e \in {"resources", "config_dt", "kzalloc"}}
        \cup {[NoFailure EXCEPT !.clk_get = FALSE]}
        \cup {in \in CanonSyscon : ~SysconFound(in)}
        \cup {[NoFailure EXCEPT !.field_alloc = FALSE],
              [NoFailure EXCEPT !.regulator_get = "defer"]}
        \cup {[in EXCEPT !.regulator_get = g, !.f = f, !.dvr_probe = d] :
                 in \in {i \in CanonSyscon : SysconFound(i)},
                 g \in {"ok", "absent"}, f \in Faults, d \in BOOLEAN}

(* ---------------------------------------------------------------------- *)
(* State                                                                   *)
(* ---------------------------------------------------------------------- *)
VARIABLES
    of_phy_mode,      \* device tree: what of_get_phy_mode() yields
    of_syscon,        \* device tree: "syscon" phandle present
    phase,            \* "unbound" | "bound"
    interface,        \* gmac->interface
    clk_enabled,      \* gmac->clk_enabled
    tx_clk,           \* gmac->tx_clk != NULL
    regulator,        \* gmac->regulator != NULL
    regmap_field,     \* gmac->regmap_field != NULL
    field,            \* EMAC clock register @ 0x164
    rate,             \* TX clock rate
    prepare_count,    \* TX clock prepare count
    enable_count,     \* TX clock enable count
    regulator_count,  \* enable count held through gmac->regulator
    devres,           \* device-managed resources held for the device
    warned,           \* clock/regulator framework warnings since the last probe began
    log,              \* calls issued by the last callback, in order
    ret,              \* return value of the last callback
    last_op,          \* last callback: "none" | "probe" | "fix_speed" | "remove"
    last_speed,       \* speed of the last fix_speed (0 if none)
    last_fault,       \* failures met by the last callback
    probe_in,         \* collaborator outcomes seen by the last probe
    probes,           \* number of probes so far
    repeated          \* the last fix_speed repeated the call before it (same speed, same outcomes)

vars == <<of_phy_mode, of_syscon, phase, interface, clk_enabled, tx_clk, regulator,
          regmap_field, field, rate, prepare_count, enable_count, regulator_count,
          devres, warned, log, ret, last_op, last_speed, last_fault, probe_in,
          probes, repeated>>

\* the state the driver functions work on, as one record
World ==
    [interface |-> interface, clk_enabled |-> clk_enabled, tx_clk |-> tx_clk,
     regulator |-> regulator, regmap_field |-> regmap_field, field |-> field,
     rate |-> rate, prepare_count |-> prepare_count, enable_count |-> enable_count,
     regulator_count |-> regulator_count, devres |-> devres, warned |-> warned,
     log |-> log, ret |-> ret]

Commit(w) ==
    /\ interface' = w.interface
    /\ clk_enabled' = w.clk_enabled
    /\ tx_clk' = w.tx_clk
    /\ regulator' = w.regulator
    /\ regmap_field' = w.regmap_field
    /\ field' = w.field
    /\ rate' = w.rate
    /\ prepare_count' = w.prepare_count
    /\ enable_count' = w.enable_count
    /\ regulator_count' = w.regulator_count
    /\ devres' = w.devres
    /\ warned' = w.warned
    /\ log' = w.log
    /\ ret' = w.ret

(* ---------------------------------------------------------------------- *)
(* Collaborators: clock framework, regulator framework, regmap             *)
(* ---------------------------------------------------------------------- *)
Logged(w, name) == [w EXCEPT !.log = Append(@, name)]

Warn(w, msg) == [w EXCEPT !.warned = @ \cup {msg}]

phy_interface_mode_is_rgmii(mode) ==
    mode \in {"RGMII", "RGMII_ID", "RGMII_RXID", "RGMII_TXID"}

\* clk_core_prepare: may fail, and then changes nothing
core_prepare(w, f) ==
    IF "clk_prepare" \in f
    THEN [w EXCEPT !.ret = -EIO]
    ELSE [w EXCEPT !.prepare_count = @ + 1, !.ret = 0]

\* clk_core_unprepare: refuses (with a warning) a clock that is not prepared
core_unprepare(w) ==
    IF w.prepare_count = 0
    THEN Warn(w, "already unprepared")
    ELSE LET u == [w EXCEPT !.prepare_count = @ - 1]
         IN IF u.prepare_count = 0 /\ u.enable_count > 0
            THEN Warn(u, "Unpreparing enabled") ELSE u

\* clk_core_enable: refuses (-ESHUTDOWN, with a warning) an unprepared clock
core_enable(w, f) ==
    IF w.prepare_count = 0
    THEN [Warn(w, "Enabling unprepared") EXCEPT !.ret = -ESHUTDOWN]
    ELSE IF "clk_enable" \in f
         THEN [w EXCEPT !.ret = -EIO]
         ELSE [w EXCEPT !.enable_count = @ + 1, !.ret = 0]

\* clk_core_disable: refuses (with a warning) a clock that is not enabled
core_disable(w) ==
    IF w.enable_count = 0
    THEN Warn(w, "already disabled")
    ELSE [w EXCEPT !.enable_count = @ - 1]

clk_prepare(w, f) == core_prepare(Logged(w, "clk_prepare"), f)

clk_unprepare(w) == core_unprepare(Logged(w, "clk_unprepare"))

clk_enable(w, f) == core_enable(Logged(w, "clk_enable"), f)

clk_disable(w) == core_disable(Logged(w, "clk_disable"))

\* clk_prepare_enable: prepare, then enable, undoing the prepare if enable fails
clk_prepare_enable(w, f) ==
    LET p == core_prepare(Logged(w, "clk_prepare_enable"), f)
    IN IF p.ret # 0 THEN p
       ELSE LET e == core_enable(p, f)
            IN IF e.ret # 0 THEN core_unprepare(e) ELSE e

\* clk_set_rate: may fail, and then leaves the rate alone
clk_set_rate(w, hz, f) ==
    LET l == Logged(w, "clk_set_rate")
    IN IF "clk_set_rate" \in f
       THEN [l EXCEPT !.ret = -EIO]
       ELSE [l EXCEPT !.rate = hz, !.ret = 0]

regulator_enable(w, f) ==
    LET l == Logged(w, "regulator_enable")
    IN IF "regulator_enable" \in f
       THEN [l EXCEPT !.ret = -EIO]
       ELSE [l EXCEPT !.regulator_count = @ + 1, !.ret = 0]

\* regulator_disable: refuses (with a warning) an unbalanced disable
regulator_disable(w) ==
    LET l == Logged(w, "regulator_disable")
    IN IF l.regulator_count = 0
       THEN Warn(l, "unbalanced disables")
       ELSE [l EXCEPT !.regulator_count = @ - 1]

regmap_field_write(w, val) == [Logged(w, "regmap_field_write") EXCEPT !.field = val]

(* ---------------------------------------------------------------------- *)
(* dwmac-sunxi.c                                                           *)
(* ---------------------------------------------------------------------- *)
\* sun7i_gmac_init writing the MII value whatever the interface mode
sun7i_gmac_init_mii_value(w0, f) ==
    LET e == Logged(w0, "sun7i_gmac_init")
        r == IF e.regulator THEN regulator_enable(e, f) ELSE e
    IN IF e.regulator /\ r.ret # 0
       THEN r
       ELSE IF r.regmap_field
            THEN IF phy_interface_mode_is_rgmii(r.interface)
                 THEN clk_prepare_enable(regmap_field_write(r, SUN7I_A20_MII_CLK), f)
                 ELSE clk_enable(regmap_field_write(r, SUN7I_A20_MII_CLK), f)
            ELSE IF phy_interface_mode_is_rgmii(r.interface)
                 THEN [clk_prepare_enable(
                           clk_set_rate(r, SUN7I_GMAC_GMII_RGMII_RATE, f), f)
                          EXCEPT !.clk_enabled = 1, !.ret = 0]
                 ELSE LET p == clk_prepare(clk_set_rate(r, SUN7I_GMAC_MII_RATE, f), f)
                      IN IF p.ret # 0 THEN p ELSE [p EXCEPT !.ret = 0]

\* sun7i_gmac_init going on after a failed regulator_enable
sun7i_gmac_init_ignore_regulator(w0, f) ==
    LET e == Logged(w0, "sun7i_gmac_init")
        r == IF e.regulator THEN regulator_enable(e, f) ELSE e
    IN IF r.regmap_field
       THEN IF phy_interface_mode_is_rgmii(r.interface)
            THEN clk_prepare_enable(regmap_field_write(r, SUN7I_A20_RGMII_CLK), f)
            ELSE clk_enable(regmap_field_write(r, SUN7I_A20_MII_CLK), f)
       ELSE IF phy_interface_mode_is_rgmii(r.interface)
            THEN [clk_prepare_enable(
                      clk_set_rate(r, SUN7I_GMAC_GMII_RGMII_RATE, f), f)
                     EXCEPT !.clk_enabled = 1, !.ret = 0]
            ELSE LET p == clk_prepare(clk_set_rate(r, SUN7I_GMAC_MII_RATE, f), f)
                 IN IF p.ret # 0 THEN p ELSE [p EXCEPT !.ret = 0]

sun7i_gmac_init(w0, f) ==
    LET e == Logged(w0, "sun7i_gmac_init")
        r == IF e.regulator THEN regulator_enable(e, f) ELSE e
    IN IF e.regulator /\ r.ret # 0
       THEN r
       ELSE IF r.regmap_field
            THEN IF phy_interface_mode_is_rgmii(r.interface)
                 THEN clk_prepare_enable(regmap_field_write(r, SUN7I_A20_RGMII_CLK), f)
                 ELSE clk_enable(regmap_field_write(r, SUN7I_A20_MII_CLK), f)
            ELSE \* Legacy devicetree support
                 IF phy_interface_mode_is_rgmii(r.interface)
                 THEN [clk_prepare_enable(
                           clk_set_rate(r, SUN7I_GMAC_GMII_RGMII_RATE, f), f)
                          EXCEPT !.clk_enabled = 1, !.ret = 0]
                 ELSE LET p == clk_prepare(clk_set_rate(r, SUN7I_GMAC_MII_RATE, f), f)
                      IN IF p.ret # 0 THEN p ELSE [p EXCEPT !.ret = 0]

\* sun7i_gmac_exit without its clk_unprepare
sun7i_gmac_exit_no_unprepare(w0) ==
    LET e == Logged(w0, "sun7i_gmac_exit")
        c == IF e.regmap_field
             THEN clk_disable(regmap_field_write(e, 0))
             ELSE IF e.clk_enabled # 0
                  THEN [clk_disable(e) EXCEPT !.clk_enabled = 0]
                  ELSE e
    IN IF c.regulator THEN regulator_disable(c) ELSE c

\* sun7i_gmac_exit disabling the regulator before it quiesces the clock
sun7i_gmac_exit_regulator_first(w0) ==
    LET e == Logged(w0, "sun7i_gmac_exit")
        r == IF e.regulator THEN regulator_disable(e) ELSE e
        c == IF r.regmap_field
             THEN clk_disable(regmap_field_write(r, 0))
             ELSE IF r.clk_enabled # 0
                  THEN [clk_disable(r) EXCEPT !.clk_enabled = 0]
                  ELSE r
    IN clk_unprepare(c)

\* sun7i_gmac_exit writing the register only after it has disabled the clock
sun7i_gmac_exit_write_after_disable(w0) ==
    LET e == Logged(w0, "sun7i_gmac_exit")
        c == IF e.regmap_field
             THEN regmap_field_write(clk_disable(e), 0)
             ELSE IF e.clk_enabled # 0
                  THEN [clk_disable(e) EXCEPT !.clk_enabled = 0]
                  ELSE e
        u == clk_unprepare(c)
    IN IF u.regulator THEN regulator_disable(u) ELSE u

sun7i_gmac_exit(w0) ==
    LET e == Logged(w0, "sun7i_gmac_exit")
        c == IF e.regmap_field
             THEN clk_disable(regmap_field_write(e, 0))
             ELSE \* Legacy devicetree support
                  IF e.clk_enabled # 0
                  THEN [clk_disable(e) EXCEPT !.clk_enabled = 0]
                  ELSE e
        u == clk_unprepare(c)
    IN IF u.regulator THEN regulator_disable(u) ELSE u

\* the regmap found through the syscon platform device: 0, or the ERR_PTR code
sun7i_gmac_get_syscon_from_dev(syscon, in) ==
    IF ~syscon THEN -ENODEV
    ELSE IF ~in.syscon_pdev THEN -EPROBE_DEFER
    ELSE IF ~in.dev_regmap THEN -EINVAL
    ELSE 0

\* sun7i_fix_speed re-enabling the clock without first disabling and unpreparing it
sun7i_fix_speed_no_rearm(w0, speed, f) ==
    LET e == Logged(w0, "sun7i_fix_speed")
    IN IF e.regmap_field
       THEN LET v == IF speed = 1000
                     THEN regmap_field_write(e, SUN7I_A20_RGMII_CLK)
                     ELSE regmap_field_write(e, SUN7I_A20_MII_CLK)
            IN clk_prepare_enable(v, f)
       ELSE IF e.interface # "GMII"
            THEN e
            ELSE LET d == IF e.clk_enabled # 0
                          THEN [clk_disable(e) EXCEPT !.clk_enabled = 0]
                          ELSE e
                     u == clk_unprepare(d)
                 IN IF speed = 1000
                    THEN [clk_prepare_enable(
                              clk_set_rate(u, SUN7I_GMAC_GMII_RGMII_RATE, f), f)
                             EXCEPT !.clk_enabled = 1]
                    ELSE clk_prepare(clk_set_rate(u, SUN7I_GMAC_MII_RATE, f), f)

\* sun7i_fix_speed without the legacy "only GMII" early return
sun7i_fix_speed_any_mode(w0, speed, f) ==
    LET e == Logged(w0, "sun7i_fix_speed")
    IN IF e.regmap_field
       THEN LET u == clk_unprepare(clk_disable(e))
                v == IF speed = 1000
                     THEN regmap_field_write(u, SUN7I_A20_RGMII_CLK)
                     ELSE regmap_field_write(u, SUN7I_A20_MII_CLK)
            IN clk_prepare_enable(v, f)
       ELSE LET d == IF e.clk_enabled # 0
                     THEN [clk_disable(e) EXCEPT !.clk_enabled = 0]
                     ELSE e
                u == clk_unprepare(d)
            IN IF speed = 1000
               THEN [clk_prepare_enable(
                         clk_set_rate(u, SUN7I_GMAC_GMII_RGMII_RATE, f), f)
                        EXCEPT !.clk_enabled = 1]
               ELSE clk_prepare(clk_set_rate(u, SUN7I_GMAC_MII_RATE, f), f)

\* sun7i_fix_speed whose legacy branch forgets the clk_unprepare
sun7i_fix_speed_keep_prepare(w0, speed, f) ==
    LET e == Logged(w0, "sun7i_fix_speed")
    IN IF e.regmap_field
       THEN LET u == clk_unprepare(clk_disable(e))
                v == IF speed = 1000
                     THEN regmap_field_write(u, SUN7I_A20_RGMII_CLK)
                     ELSE regmap_field_write(u, SUN7I_A20_MII_CLK)
            IN clk_prepare_enable(v, f)
       ELSE IF e.interface # "GMII"
            THEN e
            ELSE LET d == IF e.clk_enabled # 0
                          THEN [clk_disable(e) EXCEPT !.clk_enabled = 0]
                          ELSE e
                 IN IF speed = 1000
                    THEN [clk_prepare_enable(
                              clk_set_rate(d, SUN7I_GMAC_GMII_RGMII_RATE, f), f)
                             EXCEPT !.clk_enabled = 1]
                    ELSE clk_prepare(clk_set_rate(d, SUN7I_GMAC_MII_RATE, f), f)

\* sun7i_fix_speed choosing the register value by the interface mode
sun7i_fix_speed_by_mode(w0, speed, f) ==
    LET e == Logged(w0, "sun7i_fix_speed")
    IN IF e.regmap_field
       THEN LET u == clk_unprepare(clk_disable(e))
                v == IF phy_interface_mode_is_rgmii(e.interface)
                     THEN regmap_field_write(u, SUN7I_A20_RGMII_CLK)
                     ELSE regmap_field_write(u, SUN7I_A20_MII_CLK)
            IN clk_prepare_enable(v, f)
       ELSE IF e.interface # "GMII"
            THEN e
            ELSE LET d == IF e.clk_enabled # 0
                          THEN [clk_disable(e) EXCEPT !.clk_enabled = 0]
                          ELSE e
                     u == clk_unprepare(d)
                 IN IF speed = 1000
                    THEN [clk_prepare_enable(
                              clk_set_rate(u, SUN7I_GMAC_GMII_RGMII_RATE, f), f)
                             EXCEPT !.clk_enabled = 1]
                    ELSE clk_prepare(clk_set_rate(u, SUN7I_GMAC_MII_RATE, f), f)

sun7i_fix_speed(w0, speed, f) ==
    LET e == Logged(w0, "sun7i_fix_speed")
    IN IF e.regmap_field
       THEN LET u == clk_unprepare(clk_disable(e))
                v == IF speed = 1000
                     THEN regmap_field_write(u, SUN7I_A20_RGMII_CLK)
                     ELSE regmap_field_write(u, SUN7I_A20_MII_CLK)
            IN clk_prepare_enable(v, f)
       ELSE \* only GMII mode requires us to reconfigure the clock lines
            IF e.interface # "GMII"
            THEN e
            ELSE LET d == IF e.clk_enabled # 0
                          THEN [clk_disable(e) EXCEPT !.clk_enabled = 0]
                          ELSE e
                     u == clk_unprepare(d)
                 IN IF speed = 1000
                    THEN [clk_prepare_enable(
                              clk_set_rate(u, SUN7I_GMAC_GMII_RGMII_RATE, f), f)
                             EXCEPT !.clk_enabled = 1]
                    ELSE clk_prepare(clk_set_rate(u, SUN7I_GMAC_MII_RATE, f), f)

\* label err_remove_config_dt
err_remove_config_dt(w, err) ==
    [Logged(w, "stmmac_remove_config_dt") EXCEPT !.ret = err]

\* label err_gmac_exit without the call of sun7i_gmac_exit
err_gmac_exit_skip(w, err) == err_remove_config_dt(w, err)

\* label err_gmac_exit, falling through to err_remove_config_dt
err_gmac_exit(w, err) == err_remove_config_dt(sun7i_gmac_exit(w), err)

\* devm_kzalloc(): a zeroed struct sunxi_priv_data, holding no handle yet
devm_kzalloc(w) ==
    [w EXCEPT !.interface = "NA", !.clk_enabled = 0, !.tx_clk = FALSE,
              !.regulator = FALSE, !.regmap_field = FALSE, !.regulator_count = 0,
              !.devres = @ \cup {"gmac"}]

\* probe_regulator_init taking a deferred regulator lookup for an absent regulator
probe_regulator_init_no_defer(c, in) ==
    LET l == Logged(c, "devm_regulator_get_optional")
        g == IF in.regulator_get = "ok"
             THEN [l EXCEPT !.regulator = TRUE, !.devres = @ \cup {"regulator"}]
             ELSE [l EXCEPT !.regulator = FALSE]
        i == sun7i_gmac_init(g, in.f)
    IN IF i.ret # 0
       THEN err_remove_config_dt(i, i.ret)
       ELSE IF ~in.dvr_probe
            THEN err_gmac_exit(Logged(i, "stmmac_dvr_probe"), -EINVAL)
            ELSE [Logged(i, "stmmac_dvr_probe") EXCEPT !.ret = 0]

\* the part of probe after the TX clock and the register field are set up:
\* optional regulator, init, stmmac_dvr_probe
probe_regulator_init(c, in) ==
    LET l == Logged(c, "devm_regulator_get_optional")
    IN IF in.regulator_get = "defer"
       THEN err_remove_config_dt(l, -EPROBE_DEFER)
       ELSE LET g == IF in.regulator_get = "ok"
                     THEN [l EXCEPT !.regulator = TRUE, !.devres = @ \cup {"regulator"}]
                     ELSE [l EXCEPT !.regulator = FALSE]
                i == sun7i_gmac_init(g, in.f)
            IN IF i.ret # 0
               THEN err_remove_config_dt(i, i.ret)
               ELSE IF ~in.dvr_probe
                    THEN err_gmac_exit(Logged(i, "stmmac_dvr_probe"), -EINVAL)
                    ELSE [Logged(i, "stmmac_dvr_probe") EXCEPT !.ret = 0]

\* the part of probe that fetches the syscon node or falls back to legacy
probe_discover(g, syscon, in) ==
    IF syscon
    THEN IF ~in.clk_get
         THEN err_remove_config_dt(g, -ENODEV)
         ELSE LET c == Logged([g EXCEPT !.tx_clk = TRUE, !.devres = @ \cup {"tx_clk"}],
                              "sun7i_gmac_get_syscon_from_dev")
                  from_dev == sun7i_gmac_get_syscon_from_dev(syscon, in)
                  regmap == IF from_dev # 0 THEN in.lookup ELSE from_dev
              IN IF regmap # 0
                 THEN err_remove_config_dt(c, regmap)
                 ELSE IF ~in.field_alloc
                      THEN err_remove_config_dt(c, -ENOMEM)
                      ELSE probe_regulator_init(
                               [c EXCEPT !.regmap_field = TRUE,
                                         !.devres = @ \cup {"regmap_field"}], in)
    ELSE \* fall back to legacy clock setup
         IF ~in.clk_get
         THEN err_remove_config_dt(g, -ENODEV)
         ELSE probe_regulator_init(
                  [g EXCEPT !.tx_clk = TRUE, !.devres = @ \cup {"tx_clk"}], in)

sun7i_gmac_probe(w0, phy, syscon, in) ==
    LET s == [w0 EXCEPT !.log = <<>>, !.warned = {}, !.devres = {}]
    IN IF in.early = "resources" THEN [s EXCEPT !.ret = -EINVAL]
       ELSE IF in.early = "config_dt" THEN [s EXCEPT !.ret = -EINVAL]
       ELSE IF in.early = "kzalloc" THEN err_remove_config_dt(s, -ENOMEM)
       ELSE LET g == [devm_kzalloc(s) EXCEPT !.interface = phy.mode]
            IN IF phy.ret # 0 /\ phy.ret # -ENODEV
               THEN err_remove_config_dt(g, phy.ret)
               ELSE probe_discover(g, syscon, in)

\* driver core: a failed probe, and an unbind, release the device-managed resources
devres_release_all(w) == [w EXCEPT !.devres = {}]

(* ---------------------------------------------------------------------- *)
(* Callbacks                                                               *)
(* ---------------------------------------------------------------------- *)
Init ==
    /\ of_phy_mode \in PhyModeResults
    /\ of_syscon \in BOOLEAN
    /\ phase = "unbound"
    /\ interface = "NA"
    /\ clk_enabled = 0
    /\ tx_clk = FALSE
    /\ regulator = FALSE
    /\ regmap_field = FALSE
    /\ field = 0
    /\ rate = 0
    /\ prepare_count = 0
    /\ enable_count = 0
    /\ regulator_count = 0
    /\ devres = {}
    /\ warned = {}
    /\ log = <<>>
    /\ ret = 0
    /\ last_op = "none"
    /\ last_speed = 0
    /\ last_fault = {}
    /\ probe_in = [syscon_pdev |-> FALSE, dev_regmap |-> FALSE, lookup |-> 0,
                   regulator_get |-> "absent"]
    /\ probes = 0
    /\ repeated = FALSE

\* .probe = sun7i_gmac_probe
probe ==
    /\ phase = "unbound"
    /\ probes < MaxProbes
    /\ probes' = probes + 1
    /\ \E in \in ProbeInputs :
          LET w == sun7i_gmac_probe(World, of_phy_mode, of_syscon, in)
          IN /\ Commit(IF w.ret # 0 THEN devres_release_all(w) ELSE w)
             /\ phase' = IF w.ret = 0 THEN "bound" ELSE "unbound"
             /\ last_fault' = in.f
             /\ probe_in' = [syscon_pdev |-> in.syscon_pdev, dev_regmap |-> in.dev_regmap,
                             lookup |-> in.lookup, regulator_get |-> in.regulator_get]
    /\ last_op' = "probe"
    /\ last_speed' = 0
    /\ repeated' = FALSE
    /\ UNCHANGED <<of_phy_mode, of_syscon>>

\* plat_dat->fix_mac_speed = sun7i_fix_speed
fix_mac_speed ==
    /\ phase = "bound"
    /\ \E speed \in Speeds, f \in Faults :
          /\ Commit(sun7i_fix_speed([World EXCEPT !.log = <<>>], speed, f))
          /\ last_speed' = speed
          /\ last_fault' = f
          /\ repeated' = (last_op = "fix_speed" /\ last_speed = speed /\ last_fault = f)
    /\ last_op' = "fix_speed"
    /\ UNCHANGED <<of_phy_mode, of_syscon, phase, probe_in, probes>>

\* .remove = stmmac_pltfr_remove, which calls plat_dat->exit = sun7i_gmac_exit
remove ==
    /\ phase = "bound"
    /\ Commit(devres_release_all(
                  Logged(sun7i_gmac_exit([World EXCEPT !.log = <<>>]),
                         "stmmac_remove_config_dt")))
    /\ phase' = "unbound"
    /\ last_op' = "remove"
    /\ last_speed' = 0
    /\ last_fault' = {}
    /\ repeated' = FALSE
    /\ UNCHANGED <<of_phy_mode, of_syscon, probe_in, probes>>

Next == probe \/ fix_mac_speed \/ remove

Spec == Init /\ [][Next]_vars

(* ---------------------------------------------------------------------- *)
(* Properties                                                              *)
(* ---------------------------------------------------------------------- *)
Has(call) == \E i \in DOMAIN log : log[i] = call

\* position of the first occurrence of a call in the log (0 if none)
FirstIdx(call) ==
    IF Has(call) THEN CHOOSE i \in DOMAIN log :
                          log[i] = call /\ \A j \in 1..(i - 1) : log[j] # call
    ELSE 0

Modern == regmap_field
Legacy == ~regmap_field

\* the state right after a probe whose init (and stmmac_dvr_probe) succeeded
AfterInit == last_op = "probe" /\ phase = "bound"

\* the state right after sun7i_gmac_exit ran (unbind, or probe's error path)
AfterExit == last_op = "remove" \/ (last_op = "probe" /\ Has("sun7i_gmac_exit"))

ClockFault == last_fault \cap {"clk_prepare", "clk_enable"} # {}

ClockWarnings ==
    {"already unprepared", "Unpreparing enabled", "Enabling unprepared", "already disabled"}

\* C1: after exit, run once after a successful init and any fix_speed calls,
\* the clock is neither enabled nor prepared and the regulator, if one was
\* acquired, holds no enable
C1_ExitLeavesNothingEnabled ==
    AfterExit =>
        /\ prepare_count = 0
        /\ enable_count = 0
        /\ regulator => regulator_count = 0

\* an unbind of a legacy GMII device with a regulator, after fix_speed(1000)
C1_Witness ==
    /\ last_op = "remove"
    /\ Legacy /\ interface = "GMII" /\ regulator
    /\ rate = SUN7I_GMAC_GMII_RGMII_RATE
    /\ prepare_count = 0 /\ enable_count = 0 /\ regulator_count = 0

\* C2: under the Modern path, for every interface mode, init writes the
\* mode-select field and then issues prepare+enable as one step; after a
\* successful init the clock is prepared and enabled, and init fails exactly
\* when that prepare+enable fails
C2_ModernInitPrepareEnable ==
    (last_op = "probe" /\ Modern /\ Has("regmap_field_write")) =>
        /\ Has("clk_prepare_enable")
        /\ FirstIdx("regmap_field_write") < FirstIdx("clk_prepare_enable")
        /\ AfterInit => (prepare_count > 0 /\ enable_count > 0)
        /\ Has("stmmac_dvr_probe") <=> ~ClockFault

\* C3: clock operations are strictly paired: the clock framework never saw a
\* disable without an enable held, an unprepare without a prepare held or an
\* enable of an unprepared clock, and an enabled clock is a prepared clock
C3_ClockOpsPaired ==
    /\ warned \cap ClockWarnings = {}
    /\ prepare_count >= 0
    /\ enable_count >= 0
    /\ enable_count > 0 => prepare_count > 0

\* C4: under the Modern path, once init has written the mode-select field (and
\* so after every successful init) the field holds the RGMII value if the
\* interface mode is RGMII-family and the MII value otherwise
C4_ModernInitField ==
    (last_op = "probe" /\ Modern /\ Has("regmap_field_write") /\ ~Has("sun7i_gmac_exit")) =>
        field = IF phy_interface_mode_is_rgmii(interface)
                THEN SUN7I_A20_RGMII_CLK ELSE SUN7I_A20_MII_CLK

\* a successful Modern init in an RGMII-family mode
C4_Witness ==
    /\ AfterInit /\ Modern
    /\ interface = "RGMII_ID"
    /\ field = SUN7I_A20_RGMII_CLK

\* C5: under the Legacy path, after init succeeds the rate is 125 MHz for an
\* RGMII-family mode and 25 MHz otherwise; the flag is set with the clock
\* prepared and enabled for RGMII-family, clear with the clock only prepared
\* otherwise
C5_LegacyInitRate ==
    (AfterInit /\ Legacy) =>
        IF phy_interface_mode_is_rgmii(interface)
        THEN /\ rate = SUN7I_GMAC_GMII_RGMII_RATE
             /\ clk_enabled = 1
             /\ prepare_count = 1 /\ enable_count = 1
        ELSE /\ rate = SUN7I_GMAC_MII_RATE
             /\ clk_enabled = 0
             /\ prepare_count = 1 /\ enable_count = 0

\* C6 as stated: under the Modern path a completed fix_speed(s) leaves the
\* field at the RGMII value for s = 1000 and at the MII value otherwise, and
\* always leaves the clock prepared and enabled
C6_ModernFixSpeedAlwaysEnabled ==
    (last_op = "fix_speed" /\ Modern) =>
        /\ field = IF last_speed = 1000 THEN SUN7I_A20_RGMII_CLK ELSE SUN7I_A20_MII_CLK
        /\ prepare_count > 0
        /\ enable_count > 0

\* C6, amended: under the Modern path a completed fix_speed(s) leaves the
\* field at the RGMII value for s = 1000 and at the MII value otherwise; it
\* leaves the clock prepared and enabled (once each) when its prepare+enable
\* succeeds, and unprepared and disabled when that prepare+enable fails
C6_ModernFixSpeed ==
    (last_op = "fix_speed" /\ Modern) =>
        /\ field = IF last_speed = 1000 THEN SUN7I_A20_RGMII_CLK ELSE SUN7I_A20_MII_CLK
        /\ IF ClockFault
           THEN prepare_count = 0 /\ enable_count = 0
           ELSE prepare_count = 1 /\ enable_count = 1

\* a Modern fix_speed(100) on a device initialised in an RGMII-family mode
C6_Witness ==
    /\ last_op = "fix_speed" /\ Modern
    /\ phy_interface_mode_is_rgmii(interface)
    /\ last_speed = 100
    /\ field = SUN7I_A20_MII_CLK
    /\ prepare_count = 1 /\ enable_count = 1

\* C7: under the Legacy path in GMII mode, fix_speed(1000) leaves the rate at
\* 125 MHz, the clock prepared and enabled and the flag set; any other speed
\* leaves the rate at 25 MHz, the clock prepared only and the flag clear
C7_LegacyGmiiFixSpeed ==
    (last_op = "fix_speed" /\ Legacy /\ interface = "GMII") =>
        IF last_speed = 1000
        THEN /\ rate = SUN7I_GMAC_GMII_RGMII_RATE
             /\ prepare_count = 1 /\ enable_count = 1
             /\ clk_enabled = 1
        ELSE /\ rate = SUN7I_GMAC_MII_RATE
             /\ prepare_count = 1 /\ enable_count = 0
             /\ clk_enabled = 0

\* C8: under the Legacy path with an interface mode other than GMII,
\* fix_speed changes neither the rate, the clock counts, the flag, the
\* regulator nor the register, and issues no call at all
C8_LegacyFixSpeedNoOp ==
    [][(Legacy /\ interface # "GMII" /\ phase = "bound" /\ last_op' = "fix_speed") =>
          /\ UNCHANGED <<rate, prepare_count, enable_count, clk_enabled,
                         regulator_count, field, warned>>
          /\ log' = <<"sun7i_fix_speed">>]_vars

\* a Legacy fix_speed(1000) on an RGMII device
C8_Witness ==
    /\ last_op = "fix_speed" /\ Legacy
    /\ interface = "RGMII"
    /\ last_speed = 1000
    /\ log = <<"sun7i_fix_speed">>

\* what C9 observes of the device
Observable == <<field, rate, prepare_count, enable_count, clk_enabled>>

C10_SysconNotProbedDefers ==
    (last_op = "probe" /\ Has("sun7i_gmac_get_syscon_from_dev") /\ ~probe_in.syscon_pdev) =>
        /\ ret = -EPROBE_DEFER
        /\ devres = {}
        /\ prepare_count = 0 /\ enable_count = 0 /\ regulator_count = 0

\* the state right after a probe whose sun7i_gmac_init returned an error
InitFailed == last_op = "probe" /\ Has("sun7i_gmac_init") /\ ~Has("stmmac_dvr_probe")

\* C11: when probe returns an init error, nothing that init attempt touched
\* is left enabled: the regulator holds no enable and the clock is neither
\* prepared nor enabled
C11_InitFailureUnwinds ==
    InitFailed =>
        /\ regulator_count = 0
        /\ prepare_count = 0
        /\ enable_count = 0

\* C12: under the Legacy path, an init whose clk_set_rate or whose prepare
\* (alone, or as the first half of prepare+enable) fails returns a failure
C12_LegacyInitClockFailureFatal ==
    (last_op = "probe" /\ Legacy /\ Has("sun7i_gmac_init") /\ Has("clk_set_rate")
        /\ last_fault \cap {"clk_set_rate", "clk_prepare"} # {}) =>
        /\ ~Has("stmmac_dvr_probe")
        /\ ret # 0

\* register and clock calls, as they appear in the log
DeviceOps ==
    {"regmap_field_write", "clk_set_rate", "clk_prepare", "clk_enable",
     "clk_prepare_enable", "clk_disable", "clk_unprepare"}

\* C13: with a regulator, regulator_enable is the first call of init and
\* comes before every register write and clock call, and nothing of these is
\* issued when it fails; regulator_disable is the last call of exit and comes
\* after every register write and clock call
C13_RegulatorOrdering ==
    /\ (regulator /\ Has("sun7i_gmac_init")) =>
          /\ FirstIdx("regulator_enable") = FirstIdx("sun7i_gmac_init") + 1
          /\ \A j \in DOMAIN log :
                log[j] \in DeviceOps => j > FirstIdx("regulator_enable")
          /\ "regulator_enable" \in last_fault =>
                \A j \in DOMAIN log : log[j] \notin DeviceOps
    /\ (regulator /\ Has("sun7i_gmac_exit")) =>
          /\ FirstIdx("regulator_disable") > FirstIdx("sun7i_gmac_exit")
          /\ \A j \in DOMAIN log :
                log[j] \in DeviceOps => j < FirstIdx("regulator_disable")
          /\ log[Len(log)] = "stmmac_remove_config_dt"
          /\ FirstIdx("regulator_disable") = Len(log) - 1

\* a Modern probe with a regulator whose init succeeded and whose
\* stmmac_dvr_probe failed: init and exit both ran
C13_Witness ==
    /\ last_op = "probe" /\ Modern /\ regulator
    /\ Has("sun7i_gmac_init") /\ Has("sun7i_gmac_exit")
    /\ Has("regulator_enable") /\ Has("regulator_disable")

\* C14: a probe whose init fails at regulator_enable leaves the register, the
\* clock rate, the clock counts and the flag as they were before it
C14_RegulatorFailureTouchesNothing ==
    [][(last_op' = "probe" /\ regulator' /\ "regulator_enable" \in last_fault'
           /\ \E i \in DOMAIN log' : log'[i] = "sun7i_gmac_init") =>
          /\ UNCHANGED <<field, rate, prepare_count, enable_count, clk_enabled>>
          /\ regulator_count' = 0
          /\ ret' = -EIO]_vars

\* a Legacy probe whose init stopped at the failed regulator_enable
C14_Witness ==
    /\ last_op = "probe" /\ regulator /\ "regulator_enable" \in last_fault
    /\ log = <<"devm_regulator_get_optional", "sun7i_gmac_init", "regulator_enable",
               "stmmac_remove_config_dt">>
    /\ ret = -EIO

\* the calls from the entry of sun7i_gmac_exit to the end of the callback
ExitLog == SubSeq(log, FirstIdx("sun7i_gmac_exit"), Len(log))

\* number of times a call appears in the log
Count(call) == Cardinality({i \in DOMAIN log : log[i] = call})

\* C15: under the Modern path exit writes 0 to the register, then disables
\* the clock, then unprepares it (then disables the regulator, if any); after
\* it the register holds 0, the clock is disabled and unprepared and the
\* regulator holds no enable
C15_ModernExit ==
    (AfterExit /\ Modern) =>
        /\ ExitLog = <<"sun7i_gmac_exit", "regmap_field_write", "clk_disable",
                       "clk_unprepare">>
                     \o (IF regulator THEN <<"regulator_disable">> ELSE <<>>)
                     \o <<"stmmac_remove_config_dt">>
        /\ field = 0
        /\ prepare_count = 0
        /\ enable_count = 0
        /\ regulator => regulator_count = 0

\* an unbind of a Modern RGMII device with a regulator
C15_Witness ==
    /\ last_op = "remove" /\ Modern /\ regulator
    /\ interface = "RGMII"
    /\ field = 0 /\ prepare_count = 0 /\ enable_count = 0 /\ regulator_count = 0

\* C16: a probe whose stmmac_dvr_probe fails calls exit exactly once, after
\* it, and returns with the clock disabled and unprepared and the regulator
\* holding no enable; a probe whose init fails does not call exit
C16_ProbeFailureCallsExit ==
    /\ (last_op = "probe" /\ Has("stmmac_dvr_probe") /\ ret # 0) =>
          /\ Count("sun7i_gmac_exit") = 1
          /\ FirstIdx("sun7i_gmac_exit") = FirstIdx("stmmac_dvr_probe") + 1
          /\ prepare_count = 0
          /\ enable_count = 0
          /\ regulator => regulator_count = 0
    /\ InitFailed => ~Has("sun7i_gmac_exit")

\* a Legacy RGMII probe with a regulator whose stmmac_dvr_probe failed
C16_Witness ==
    /\ last_op = "probe" /\ Has("stmmac_dvr_probe") /\ ret = -EINVAL
    /\ Legacy /\ regulator /\ phy_interface_mode_is_rgmii(interface)
    /\ Has("sun7i_gmac_exit")
    /\ enable_count = 0 /\ regulator_count = 0

\* C17: exit, called on the state a failed init leaves (regulator_enable
\* failed, or the clock step failed after it), issues no disable or unprepare
\* on a clock that holds none and no disable on a regulator that holds none,
\* and ends with nothing enabled
C17_ExitSafeAfterFailedInit ==
    InitFailed =>
        LET x == sun7i_gmac_exit([World EXCEPT !.warned = {}, !.log = <<>>])
        IN /\ x.warned = {}
           /\ x.prepare_count = 0
           /\ x.enable_count = 0
           /\ x.regulator_count = 0

\* C18: a deferred regulator lookup makes probe return -EPROBE_DEFER before
\* init is called; an absent regulator leaves the handle null and probe goes
\* on to init; with a null handle neither init nor exit issues a regulator
\* enable or disable
C18_OptionalRegulator ==
    /\ (last_op = "probe" /\ Has("devm_regulator_get_optional")) =>
          /\ probe_in.regulator_get = "defer" =>
                (ret = -EPROBE_DEFER /\ ~Has("sun7i_gmac_init") /\ devres = {})
          /\ probe_in.regulator_get = "absent" =>
                (~regulator /\ Has("sun7i_gmac_init"))
    /\ ~regulator =>
          /\ ~Has("regulator_enable")
          /\ ~Has("regulator_disable")
          /\ regulator_count = 0

\* a probe stopped by a deferred regulator lookup
C18_Witness ==
    /\ last_op = "probe" /\ Has("devm_regulator_get_optional")
    /\ probe_in.regulator_get = "defer"
    /\ ret = -EPROBE_DEFER
    /\ ~Has("sun7i_gmac_init")

\* C19: under the Modern path the register value and the clock counts that
\* fix_speed(s) leaves are the same whatever interface mode the device state
\* records, all else (register, clock, speed, outcomes of the calls) equal
C19_ModernFixSpeedIgnoresMode ==
    (phase = "bound" /\ Modern) =>
        \A m \in Modes, s \in Speeds, f \in Faults :
            LET a == sun7i_fix_speed(World, s, f)
                b == sun7i_fix_speed([World EXCEPT !.interface = m], s, f)
            IN /\ a.field = b.field
               /\ a.prepare_count = b.prepare_count
               /\ a.enable_count = b.enable_count

\* a Modern fix_speed(10) on a device discovered in an RGMII-family mode: the
\* register holds the MII value all the same
C19_Witness ==
    /\ last_op = "fix_speed" /\ Modern
    /\ interface = "RGMII_TXID"
    /\ last_speed = 10
    /\ field = SUN7I_A20_MII_CLK
    /\ enable_count = 1

\* C20: under the Legacy path, between callbacks and whatever the outcome of
\* the clock calls, the flag is set exactly when an enable is held on the clock
C20_FlagTracksEnable ==
    Legacy => ((clk_enabled # 0) <=> (enable_count > 0))

====
